---- MODULE Spec2Model ----
(***************************************************************************)
(* Lead-approval pipeline: the SQLite store (storage.py), the contact      *)
(* lookup with its cache (apollo_client.py) and the two Flask handlers     *)
(* (app.py): the RepoRadar webhook and the Slack interaction endpoint.     *)
(*                                                                         *)
(* Each request handler runs in its own thread; one step of a handler is   *)
(* one database statement/transaction or one call of an external service.  *)
(* Time is counted in days.                                                *)
(***************************************************************************)
EXTENDS Naturals, Integers, Sequences, FiniteSets, TLC

VARIABLES
    now,        \* wall clock (datetime.now()), in days
    cache,      \* table company_cache: domain -> row
    queue,      \* table approval_queue: id -> row
    pc,         \* per handler thread: the step it is at
    loc,        \* per handler thread: the handler's local variables
    resp,       \* per handler thread: the response of its last request
    calls,      \* per handler thread: external calls made for its current request
    posted,     \* Slack channel: ids whose approval card has been posted
    crmLog,     \* Apollo: per request id, contacts created and enrollments made
    nextId,     \* number of uuid4 values drawn so far
    ncalls,     \* number of HTTP requests accepted so far
    last        \* the last direct call of the storage API and its result

vars == <<now, cache, queue, pc, loc, resp, calls, posted, crmLog, nextId, ncalls, last>>

(***************************************************************************)
(* Bounds and input sets                                                   *)
(***************************************************************************)
MaxCalls == 3
MaxClock == 8

CACHE_EXPIRY_DAYS == 7

\* verify_slack_signature: 60 * 5 seconds
SLACK_MAX_SKEW == 300

Procs == {"h1", "h2"}

\* Python's None
None == "None"

SignalDomains == {"acme.com"}
StoreDomains == {"acme.com", "shop.io"}

ContactEmail == [id |-> "c1", email |-> "ann@acme.com"]
ContactNoneEmail == [id |-> "c2", email |-> None]
ContactEmptyEmail == [id |-> "c3", email |-> ""]

\* what the Apollo people search can answer
DirectoryResults ==
    { <<>>, <<ContactEmail>>, <<ContactNoneEmail, ContactEmail>>, <<ContactEmptyEmail>> }

\* contact lists handed to cache_contacts directly
StoreContactLists ==
    { <<>>, <<ContactEmail>>, <<ContactNoneEmail, ContactEmail>>,
      <<ContactEmail, ContactNoneEmail>>, <<ContactEmptyEmail>> }

FieldValues == {None, "", "c1", "c2", "c3", "ann@acme.com"}

SlackTs == "1700000000.000100"

Draft == [subject |-> "Your new fr.json", body |-> "Hi {{first_name}}"]
OtherDraft == [subject |-> "i18n at {{company}}", body |-> "Hello"]

Statuses == {"pending", "approved", "skipped", "rejected"}
Terminal == {"approved", "skipped", "rejected"}

\* the days by which the clock may jump between two steps
TickDays == {CACHE_EXPIRY_DAYS, CACHE_EXPIRY_DAYS + 1}

(***************************************************************************)
(* Conversions                                                             *)
(***************************************************************************)
\* Python truthiness of an Optional[str]
Truthy(s) == s # None /\ s # ""

\* a dump that writes a missing value as the empty string
JsonDumpsValueNoneAsEmpty(v) == IF v = None THEN "\"\"" ELSE "\"" \o v \o "\""

\* json.dumps of one Optional[str]: None becomes null, a string is quoted
JsonDumpsValue(v) == IF v = None THEN "null" ELSE "\"" \o v \o "\""

\* json.loads of one token
JsonLoadsValue(tok) ==
    IF tok = "null" THEN None
    ELSE CHOOSE v \in FieldValues \ {None} : "\"" \o v \o "\"" = tok

\* json.dumps(contacts): a JSON array of objects, in order
JsonDumps(contacts) ==
    [i \in 1..Len(contacts) |->
        [id |-> JsonDumpsValue(contacts[i].id), email |-> JsonDumpsValue(contacts[i].email)]]

\* json.loads(row["contacts_json"])
JsonLoads(text) ==
    [i \in 1..Len(text) |->
        [id |-> JsonLoadsValue(text[i].id), email |-> JsonLoadsValue(text[i].email)]]

\* datetime.isoformat() / datetime.fromisoformat()
Isoformat(t) == [iso |-> t]
FromIsoformat(s) == s.iso

(***************************************************************************)
(* storage.py                                                              *)
(***************************************************************************)
\* get_cached_contacts, the SELECT: the row of the domain, if any
CacheHasRow(c, domain) == domain \in DOMAIN c

\* an expiry test that already expires a row exactly one window old
CacheExpiredAtWindow(row, t) == t - FromIsoformat(row.fetched_at) >= CACHE_EXPIRY_DAYS

\* get_cached_contacts, the expiry test
CacheExpired(row, t) == t - FromIsoformat(row.fetched_at) > CACHE_EXPIRY_DAYS

\* get_cached_contacts, the DELETE
CacheDelete(c, domain) == [d \in (DOMAIN c) \ {domain} |-> c[d]]

\* get_cached_contacts, the value returned for a row that is not expired
CacheRowContacts(row) == JsonLoads(row.contacts_json)

\* get_cached_contacts as one call: what it returns and the table it leaves
GetCachedContacts(c, domain, t) ==
    IF ~CacheHasRow(c, domain)
    THEN [found |-> FALSE, contacts |-> <<>>, cache |-> c]
    ELSE IF CacheExpired(c[domain], t)
    THEN [found |-> FALSE, contacts |-> <<>>, cache |-> CacheDelete(c, domain)]
    ELSE [found |-> TRUE, contacts |-> CacheRowContacts(c[domain]), cache |-> c]

\* an upsert that keeps the fetched_at of a row it replaces
CacheContactsKeepsFetchedAt(c, domain, contacts, t) ==
    [d \in (DOMAIN c) \cup {domain} |->
        IF d = domain
        THEN [contacts_json |-> JsonDumps(contacts),
              fetched_at |-> IF domain \in DOMAIN c THEN c[domain].fetched_at ELSE Isoformat(t)]
        ELSE c[d]]

\* cache_contacts: INSERT OR REPLACE
CacheContacts(c, domain, contacts, t) ==
    [d \in (DOMAIN c) \cup {domain} |->
        IF d = domain
        THEN [contacts_json |-> JsonDumps(contacts), fetched_at |-> Isoformat(t)]
        ELSE c[d]]

\* an ApprovalRequest built with a correlation token already filled in
NewApprovalRequestWithToken(id, domain, contact, draft) ==
    [id |-> id, domain |-> domain,
     contact_id |-> contact.id, contact_email |-> contact.email,
     personalized_subject |-> draft.subject, personalized_email |-> draft.body,
     slack_message_ts |-> SlackTs, status |-> "pending"]

\* the ApprovalRequest built by the webhook: status and slack_message_ts default
NewApprovalRequest(id, domain, contact, draft) ==
    [id |-> id, domain |-> domain,
     contact_id |-> contact.id, contact_email |-> contact.email,
     personalized_subject |-> draft.subject, personalized_email |-> draft.body,
     slack_message_ts |-> None, status |-> "pending"]

\* an insert that replaces a row with the same id (INSERT OR REPLACE)
SaveRaisesNever(q, request) == FALSE

\* save_approval_request: INSERT; a second row with the id is an IntegrityError
SaveRaises(q, request) == request.id \in DOMAIN q

SaveApprovalRequest(q, request, t) ==
    [i \in (DOMAIN q) \cup {request.id} |->
        IF i = request.id
        THEN [domain |-> request.domain,
              contact_id |-> request.contact_id,
              contact_email |-> request.contact_email,
              personalized_subject |-> request.personalized_subject,
              personalized_email |-> request.personalized_email,
              slack_message_ts |-> request.slack_message_ts,
              status |-> request.status,
              created_at |-> Isoformat(t),
              updated_at |-> Isoformat(t)]
        ELSE q[i]]

\* an update that always writes the slack_message_ts column
UpdateApprovalStatusAlwaysTs(q, id, status, slack_ts, t) ==
    IF id \notin DOMAIN q THEN q
    ELSE [q EXCEPT ![id] = [@ EXCEPT !.status = status,
                                     !.slack_message_ts = slack_ts,
                                     !.updated_at = Isoformat(t)]]

\* an update that deletes the row instead of marking it skipped
UpdateApprovalStatusDeletesSkipped(q, id, status, slack_ts, t) ==
    IF id \notin DOMAIN q THEN q
    ELSE IF status = "skipped" THEN [i \in (DOMAIN q) \ {id} |-> q[i]]
    ELSE IF Truthy(slack_ts)
    THEN [q EXCEPT ![id] = [@ EXCEPT !.status = status,
                                     !.slack_message_ts = slack_ts,
                                     !.updated_at = Isoformat(t)]]
    ELSE [q EXCEPT ![id] = [@ EXCEPT !.status = status,
                                     !.updated_at = Isoformat(t)]]

\* update_approval_status: UPDATE ... WHERE id = ?; no row matching is no error
UpdateApprovalStatus(q, id, status, slack_ts, t) ==
    IF id \notin DOMAIN q THEN q
    ELSE IF Truthy(slack_ts)
    THEN [q EXCEPT ![id] = [@ EXCEPT !.status = status,
                                     !.slack_message_ts = slack_ts,
                                     !.updated_at = Isoformat(t)]]
    ELSE [q EXCEPT ![id] = [@ EXCEPT !.status = status,
                                     !.updated_at = Isoformat(t)]]

\* update_approval_email
UpdateApprovalEmail(q, id, subject, body, t) ==
    IF id \notin DOMAIN q THEN q
    ELSE [q EXCEPT ![id] = [@ EXCEPT !.personalized_subject = subject,
                                     !.personalized_email = body,
                                     !.updated_at = Isoformat(t)]]

\* a listing of the pending rows whose card has been posted only
GetPendingRequestsWithCard(q) ==
    {i \in DOMAIN q : q[i].status = "pending" /\ q[i].slack_message_ts # None}

\* get_pending_requests: the ids with status pending
GetPendingRequests(q) == {i \in DOMAIN q : q[i].status = "pending"}

(***************************************************************************)
(* Handler frames and responses                                            *)
(***************************************************************************)
Resp(code, body, reason) == [code |-> code, body |-> body, reason |-> reason]
NoResp == Resp(0, "", "")

NoFrame ==
    [kind |-> "none", domain |-> "", searched |-> FALSE, contacts |-> <<>>, rid |-> 0,
     slack_ts |-> None, action |-> "", snap_status |-> "", new_contact_id |-> FALSE]

\* the handler thread p answers with r, leaving the frame, having called the
\* services; it is free for the next request
Return(p, r, frame, services) ==
    /\ resp' = [resp EXCEPT ![p] = r]
    /\ pc' = [pc EXCEPT ![p] = "idle"]
    /\ loc' = [loc EXCEPT ![p] = frame]
    /\ calls' = [calls EXCEPT ![p] = (IF pc[p] = "idle" THEN {} ELSE @) \cup services]

\* the handler thread p goes on to label with the frame, having called the services
Goto(p, label, frame, services) ==
    /\ pc' = [pc EXCEPT ![p] = label]
    /\ loc' = [loc EXCEPT ![p] = frame]
    /\ calls' = [calls EXCEPT ![p] = (IF pc[p] = "idle" THEN {} ELSE @) \cup services]
    /\ resp' = [resp EXCEPT ![p] = NoResp]

\* a request is accepted by the free handler thread p
Accept(p) ==
    /\ pc[p] = "idle"
    /\ ncalls < MaxCalls
    /\ ncalls' = ncalls + 1

\* the two tests without the one for an empty list
SkipReasonNoEmptyTest(contacts) ==
    IF contacts # <<>> /\ ~Truthy(Head(contacts).email) THEN "no_email"
    ELSE "none"

\* the two tests with the email compared to None only
SkipReasonEmailIsNone(contacts) ==
    IF contacts = <<>> THEN "no_contacts_found"
    ELSE IF Head(contacts).email = None THEN "no_email"
    ELSE "none"

\* "if not contacts" and "if not contact.email" with contact = contacts[0]
SkipReason(contacts) ==
    IF contacts = <<>> THEN "no_contacts_found"
    ELSE IF ~Truthy(Head(contacts).email) THEN "no_email"
    ELSE "none"

\* the webhook once search_people has returned the contacts
AfterSearch(p, frame, contacts, services) ==
    LET reason == SkipReason(contacts)
        bound == [frame EXCEPT !.searched = TRUE, !.contacts = contacts]
    IN IF reason # "none"
       THEN Return(p, Resp(200, "skipped", reason), bound, services)
       ELSE Goto(p, "draft", bound, services)

(***************************************************************************)
(* app.py: handle_reporadar_webhook                                        *)
(***************************************************************************)
PayloadShapes == {"valid", "unknown_signal_type", "missing_field", "empty_field"}

\* a validation without the min_length=1 constraints
PayloadValidNoMinLength(shape) == shape \in {"valid", "empty_field"}

\* RepoRadarPayload(**data): pydantic's ValidationError is a ValueError
PayloadValid(shape) == shape = "valid"

\* a search that does not look at the cache (use_cache false)
CacheReadNoCache(p, frame) == Goto(p, "directory", frame, {})

\* get_cached_contacts, the SELECT and the expiry test; "if cached:" in
\* search_people takes a non-empty list only
CacheRead(p, frame) ==
    LET domain == frame.domain IN
    IF ~CacheHasRow(cache, domain)
    THEN Goto(p, "directory", frame, {})
    ELSE IF CacheExpired(cache[domain], now)
    THEN Goto(p, "cache_purge", frame, {})
    ELSE LET cached == CacheRowContacts(cache[domain]) IN
         IF cached # <<>>
         THEN AfterSearch(p, frame, cached, {})
         ELSE Goto(p, "directory", frame, {})

\* the payload is parsed and validated, the cache is read
SignalRequest(p, shape, domain) ==
    IF PayloadValid(shape)
    THEN CacheRead(p, [NoFrame EXCEPT !.kind = "signal", !.domain = domain])
    ELSE Return(p, Resp(400, "error", "Invalid payload"), [NoFrame EXCEPT !.kind = "signal"], {})

\* the request arrives
SignalStart(p) ==
    /\ Accept(p)
    /\ \E shape \in PayloadShapes, domain \in SignalDomains : SignalRequest(p, shape, domain)
    /\ UNCHANGED <<now, cache, queue, posted, crmLog, nextId, last>>

\* get_cached_contacts, the DELETE of the expired row and its commit
SignalCachePurge(p) ==
    /\ pc[p] = "cache_purge"
    /\ cache' = CacheDelete(cache, loc[p].domain)
    /\ Goto(p, "directory", loc[p], {})
    /\ UNCHANGED <<now, queue, posted, crmLog, nextId, ncalls, last>>

\* a search that hands every answer, an empty one included, to cache_contacts
SignalDirectoryCachesEmpty(p) ==
    /\ pc[p] = "directory"
    /\ \/ Return(p, Resp(500, "error", "Internal server error"), loc[p], {"directory"})
       \/ Return(p, Resp(400, "error", "Invalid payload"), loc[p], {"directory"})
       \/ \E people \in DirectoryResults :
            Goto(p, "cache_store", [loc[p] EXCEPT !.contacts = people], {"directory"})
    /\ UNCHANGED <<now, cache, queue, posted, crmLog, nextId, ncalls, last>>

\* search_people: the Apollo request; a non-200 answer or a timeout raises,
\* an answer that is no JSON raises a ValueError, which the webhook reports
\* as an invalid payload; an empty answer is returned without being cached
SignalDirectory(p) ==
    /\ pc[p] = "directory"
    /\ \/ Return(p, Resp(500, "error", "Internal server error"), loc[p], {"directory"})
       \/ Return(p, Resp(400, "error", "Invalid payload"), loc[p], {"directory"})
       \/ \E people \in DirectoryResults :
            IF people # <<>>
            THEN Goto(p, "cache_store", [loc[p] EXCEPT !.contacts = people], {"directory"})
            ELSE AfterSearch(p, loc[p], people, {"directory"})
    /\ UNCHANGED <<now, cache, queue, posted, crmLog, nextId, ncalls, last>>

\* search_people: cache_contacts(domain, ...) of a non-empty answer
SignalCacheStore(p) ==
    /\ pc[p] = "cache_store"
    /\ cache' = CacheContacts(cache, loc[p].domain, loc[p].contacts, now)
    /\ AfterSearch(p, loc[p], loc[p].contacts, {})
    /\ UNCHANGED <<now, queue, posted, crmLog, nextId, ncalls, last>>

\* a draft step that reports a failed generation as a skip
SignalDraftFailureSkips(p) ==
    /\ pc[p] = "draft"
    /\ \/ Return(p, Resp(200, "skipped", "no_draft"), loc[p], {"draft"})
       \/ Goto(p, "save", loc[p], {"draft"})
    /\ UNCHANGED <<now, cache, queue, posted, crmLog, nextId, ncalls, last>>

\* generate_personalized_email: the language model call; an unknown
\* AI_PROVIDER raises a ValueError, which the webhook reports as an invalid
\* payload
SignalDraft(p) ==
    /\ pc[p] = "draft"
    /\ \/ Return(p, Resp(500, "error", "Internal server error"), loc[p], {"draft"})
       \/ Return(p, Resp(400, "error", "Invalid payload"), loc[p], {"draft"})
       \/ Goto(p, "save", loc[p], {"draft"})
    /\ UNCHANGED <<now, cache, queue, posted, crmLog, nextId, ncalls, last>>

\* ApprovalRequest(id=str(uuid.uuid4()), ...) and save_approval_request
SignalSave(p) ==
    /\ pc[p] = "save"
    /\ LET id == nextId + 1
           request == NewApprovalRequest(id, loc[p].domain, Head(loc[p].contacts), Draft)
       IN /\ nextId' = id
          /\ IF SaveRaises(queue, request)
             THEN /\ Return(p, Resp(500, "error", "Internal server error"), loc[p], {})
                  /\ UNCHANGED <<queue, crmLog>>
             ELSE /\ queue' = SaveApprovalRequest(queue, request, now)
                  /\ crmLog' = (id :> [created |-> 0, enrolled |-> 0]) @@ crmLog
                  /\ Goto(p, "publish", [loc[p] EXCEPT !.rid = id], {})
    /\ UNCHANGED <<now, cache, posted, ncalls, last>>

\* slack_bot.post_approval_card: SlackApiError is raised again
SignalPublish(p) ==
    /\ pc[p] = "publish"
    /\ \/ /\ Return(p, Resp(500, "error", "Internal server error"), loc[p], {"publish"})
          /\ UNCHANGED posted
       \/ /\ posted' = posted \cup {loc[p].rid}
          /\ Goto(p, "record_token", [loc[p] EXCEPT !.slack_ts = SlackTs], {"publish"})
    /\ UNCHANGED <<now, cache, queue, crmLog, nextId, ncalls, last>>

\* update_approval_status(approval_request.id, "pending", slack_ts)
SignalRecordToken(p) ==
    /\ pc[p] = "record_token"
    /\ queue' = UpdateApprovalStatus(queue, loc[p].rid, "pending", loc[p].slack_ts, now)
    /\ Return(p, Resp(200, "pending_approval", ""), loc[p], {})
    /\ UNCHANGED <<now, cache, posted, crmLog, nextId, ncalls, last>>

(***************************************************************************)
(* app.py: verify_slack_signature and handle_slack_interactions            *)
(***************************************************************************)
TimestampHeaders == {"missing", "not_a_number", "number"}
Skews == {0, SLACK_MAX_SKEW, SLACK_MAX_SKEW + 1}
SignatureHeaders == {"missing", "wrong", "correct"}
ActionIds == {"approve_lead", "skip_lead", "edit_lead", "regenerate_lead", "other"}

\* a verification without the replay test on the timestamp
VerifySlackSignatureNoReplayTest(timestamp, skew, signature) ==
    IF timestamp # "number" THEN "raise"
    ELSE IF signature = "correct" THEN "accept"
    ELSE "reject"

\* verify_slack_signature: int(timestamp) raises on a header that is no number;
\* skew is abs(time.time() - int(timestamp)); "correct" is the HMAC of this
\* timestamp and body under the signing secret
VerifySlackSignature(timestamp, skew, signature) ==
    IF timestamp # "number" THEN "raise"
    ELSE IF skew > SLACK_MAX_SKEW THEN "reject"
    ELSE IF signature = "correct" THEN "accept"
    ELSE "reject"

\* the ids a button of a posted card carries, and one no record has
InteractionIds == posted \cup {0}

\* a dispatch that does not test whether the approval request was found
GetRequestNoLookupTest(p, frame) ==
    LET found == [frame EXCEPT !.snap_status =
                        IF frame.rid \in DOMAIN queue THEN queue[frame.rid].status ELSE ""] IN
    CASE frame.action = "approve_lead" -> Goto(p, "create_contact", found, {})
      [] frame.action = "skip_lead" -> Goto(p, "skip_update", found, {})
      [] frame.action = "edit_lead" ->
             Return(p, Resp(501, "edit_not_implemented", ""), found, {})
      [] frame.action = "regenerate_lead" ->
             Return(p, Resp(501, "regenerate_not_implemented", ""), found, {})
      [] OTHER -> Return(p, Resp(400, "error", "Unknown action"), found, {})

\* a dispatch that treats the edit button as the skip button
GetRequestEditSkips(p, frame) ==
    IF frame.rid \notin DOMAIN queue
    THEN Return(p, Resp(404, "error", "Request not found"), frame, {})
    ELSE LET found == [frame EXCEPT !.snap_status = queue[frame.rid].status] IN
         CASE frame.action = "approve_lead" -> Goto(p, "create_contact", found, {})
           [] frame.action \in {"skip_lead", "edit_lead"} -> Goto(p, "skip_update", found, {})
           [] frame.action = "regenerate_lead" ->
                  Return(p, Resp(501, "regenerate_not_implemented", ""), found, {})
           [] OTHER -> Return(p, Resp(400, "error", "Unknown action"), found, {})

\* get_approval_request and the dispatch on action_id
GetRequest(p, frame) ==
    IF frame.rid \notin DOMAIN queue
    THEN Return(p, Resp(404, "error", "Request not found"), frame, {})
    ELSE LET found == [frame EXCEPT !.snap_status = queue[frame.rid].status] IN
         CASE frame.action = "approve_lead" -> Goto(p, "create_contact", found, {})
           [] frame.action = "skip_lead" -> Goto(p, "skip_update", found, {})
           [] frame.action = "edit_lead" ->
                  Return(p, Resp(501, "edit_not_implemented", ""), found, {})
           [] frame.action = "regenerate_lead" ->
                  Return(p, Resp(501, "regenerate_not_implemented", ""), found, {})
           [] OTHER -> Return(p, Resp(400, "error", "Unknown action"), found, {})

\* the signature is verified, the payload parsed, the approval request read;
\* verify_slack_signature is called outside the try block
InteractionRequest(p, timestamp, skew, signature) ==
    LET verdict == VerifySlackSignature(timestamp, skew, signature) IN
    CASE verdict = "accept" ->
            \E action \in ActionIds, rid \in InteractionIds :
                GetRequest(p, [NoFrame EXCEPT !.kind = "interaction",
                                              !.action = action, !.rid = rid])
      [] verdict = "reject" ->
            Return(p, Resp(401, "error", "Invalid signature"),
                   [NoFrame EXCEPT !.kind = "interaction"], {})
      [] OTHER ->
            Return(p, Resp(500, "error", "unhandled ValueError"),
                   [NoFrame EXCEPT !.kind = "interaction"], {})

\* the request arrives
InteractionStart(p) ==
    /\ Accept(p)
    /\ \E timestamp \in TimestampHeaders, skew \in Skews, signature \in SignatureHeaders :
            InteractionRequest(p, timestamp, skew, signature)
    /\ UNCHANGED <<now, cache, queue, posted, crmLog, nextId, last>>

\* an approve that goes on to the enrollment whether or not a contact id came back
ApproveCreateContactAlwaysEnrolls(p) ==
    /\ pc[p] = "create_contact"
    /\ \/ /\ Return(p, Resp(500, "error", "create_contact failed"), loc[p], {"create_contact"})
          /\ UNCHANGED crmLog
       \/ /\ crmLog' = [crmLog EXCEPT ![loc[p].rid].created = @ + 1]
          /\ Goto(p, "add_to_sequence", [loc[p] EXCEPT !.new_contact_id = TRUE],
                  {"create_contact"})
       \/ /\ Goto(p, "add_to_sequence", [loc[p] EXCEPT !.new_contact_id = FALSE],
                  {"create_contact"})
          /\ UNCHANGED crmLog
    /\ UNCHANGED <<now, cache, queue, posted, nextId, ncalls, last>>

\* handle_approve: apollo_client.create_contact; the answer may carry no contact id
ApproveCreateContact(p) ==
    /\ pc[p] = "create_contact"
    /\ \/ /\ Return(p, Resp(500, "error", "create_contact failed"), loc[p], {"create_contact"})
          /\ UNCHANGED crmLog
       \/ /\ crmLog' = [crmLog EXCEPT ![loc[p].rid].created = @ + 1]
          /\ Goto(p, "add_to_sequence", [loc[p] EXCEPT !.new_contact_id = TRUE],
                  {"create_contact"})
       \/ /\ Goto(p, "approve_update", [loc[p] EXCEPT !.new_contact_id = FALSE],
                  {"create_contact"})
          /\ UNCHANGED crmLog
    /\ UNCHANGED <<now, cache, queue, posted, nextId, ncalls, last>>

\* handle_approve: "if new_contact_id: apollo_client.add_to_sequence(...)"
ApproveAddToSequence(p) ==
    /\ pc[p] = "add_to_sequence"
    /\ \/ /\ Return(p, Resp(500, "error", "add_to_sequence failed"), loc[p], {"add_to_sequence"})
          /\ UNCHANGED crmLog
       \/ /\ crmLog' = [crmLog EXCEPT ![loc[p].rid].enrolled = @ + 1]
          /\ Goto(p, "approve_update", loc[p], {"add_to_sequence"})
    /\ UNCHANGED <<now, cache, queue, posted, nextId, ncalls, last>>

\* slack_bot.update_card_approved / update_card_rejected: chat_update answers
\* or raises SlackApiError
CardUpdates == {"update_card", "update_card_failed"}

\* a card update whose SlackApiError reaches the handler
UpdateMessageRaises(r, card) ==
    IF card = "update_card_failed" THEN Resp(500, "error", "SlackApiError") ELSE r

\* slack_bot._update_message: a SlackApiError is logged and not raised again,
\* the handler answers r either way
UpdateMessage(r, card) == r

\* handle_approve: update_approval_status(request.id, "approved"), then
\* slack_bot.update_card_approved
ApproveUpdateStatus(p) ==
    /\ pc[p] = "approve_update"
    /\ queue' = UpdateApprovalStatus(queue, loc[p].rid, "approved", None, now)
    /\ \E card \in CardUpdates :
            Return(p, UpdateMessage(Resp(200, "approved", ""), card), loc[p], {card})
    /\ UNCHANGED <<now, cache, posted, crmLog, nextId, ncalls, last>>

\* handle_skip: update_approval_status(request.id, "skipped"), then
\* slack_bot.update_card_rejected
SkipUpdateStatus(p) ==
    /\ pc[p] = "skip_update"
    /\ queue' = UpdateApprovalStatus(queue, loc[p].rid, "skipped", None, now)
    /\ \E card \in CardUpdates :
            Return(p, UpdateMessage(Resp(200, "skipped", ""), card), loc[p], {card})
    /\ UNCHANGED <<now, cache, posted, crmLog, nextId, ncalls, last>>

(***************************************************************************)
(* The clock                                                               *)
(***************************************************************************)
Tick ==
    /\ \A p \in Procs : pc[p] = "idle"
    /\ \E d \in TickDays : now + d <= MaxClock /\ now' = now + d
    /\ UNCHANGED <<cache, queue, pc, loc, resp, calls, posted, crmLog, nextId, ncalls, last>>

(***************************************************************************)
(* The service                                                             *)
(***************************************************************************)
NoCall == [op |-> "none", seq |-> 0]

\* init_db on an empty database file, all handler threads free
Init ==
    /\ now = 0
    /\ cache = <<>>
    /\ queue = <<>>
    /\ pc = [p \in Procs |-> "idle"]
    /\ loc = [p \in Procs |-> NoFrame]
    /\ resp = [p \in Procs |-> NoResp]
    /\ calls = [p \in Procs |-> {}]
    /\ posted = {}
    /\ crmLog = <<>>
    /\ nextId = 0
    /\ ncalls = 0
    /\ last = NoCall

\* the steps of a webhook after its first
SignalSteps(p) ==
    \/ SignalCachePurge(p)
    \/ SignalDirectory(p)
    \/ SignalCacheStore(p)
    \/ SignalDraft(p)
    \/ SignalSave(p)
    \/ SignalPublish(p)
    \/ SignalRecordToken(p)

Webhook(p) ==
    \/ SignalStart(p)
    \/ SignalSteps(p)

\* the steps of an interaction after its first
InteractionSteps(p) ==
    \/ ApproveCreateContact(p)
    \/ ApproveAddToSequence(p)
    \/ ApproveUpdateStatus(p)
    \/ SkipUpdateStatus(p)

Interaction(p) ==
    \/ InteractionStart(p)
    \/ InteractionSteps(p)

Next ==
    \/ \E p \in Procs : Webhook(p)
    \/ \E p \in Procs : Interaction(p)
    \/ Tick

Spec == Init /\ [][Next]_vars

(***************************************************************************)
(* storage.py called directly, one call at a time: the cache               *)
(***************************************************************************)
HandlersIdle == UNCHANGED <<pc, loc, resp, calls, posted, crmLog, nextId, ncalls>>

ApiGetCachedContacts(domain) ==
    /\ LET r == GetCachedContacts(cache, domain, now) IN
        /\ cache' = r.cache
        /\ last' = [op |-> "get_cached_contacts", seq |-> 1 - last.seq, domain |-> domain,
                    had_row |-> CacheHasRow(cache, domain),
                    found |-> r.found, contacts |-> r.contacts, at |-> now]
    /\ UNCHANGED <<now, queue>>
    /\ HandlersIdle

ApiCacheContacts(domain, contacts) ==
    /\ cache' = CacheContacts(cache, domain, contacts, now)
    /\ last' = [op |-> "cache_contacts", seq |-> 1 - last.seq, domain |-> domain,
                had_row |-> CacheHasRow(cache, domain),
                found |-> FALSE, contacts |-> contacts, at |-> now]
    /\ UNCHANGED <<now, queue>>
    /\ HandlersIdle

CacheNext ==
    \/ \E domain \in StoreDomains : ApiGetCachedContacts(domain)
    \/ \E domain \in StoreDomains, contacts \in StoreContactLists :
            ApiCacheContacts(domain, contacts)
    \/ Tick

CacheSpec == Init /\ [][CacheNext]_vars

(***************************************************************************)
(* storage.py called directly, one call at a time: the approval queue      *)
(***************************************************************************)
StoreIds == {1, 2}
StoreTokens == {None, "", SlackTs}

QueueCall(op, id, status, slack_ts, raised) ==
    [op |-> op, seq |-> 1 - last.seq, id |-> id, status |-> status,
     slack_ts |-> slack_ts, raised |-> raised]

ApiSaveApprovalRequest(id) ==
    /\ LET request == NewApprovalRequest(id, "acme.com", ContactEmail, Draft) IN
        IF SaveRaises(queue, request)
        THEN /\ UNCHANGED queue
             /\ last' = QueueCall("save_approval_request", id, request.status, None, TRUE)
        ELSE /\ queue' = SaveApprovalRequest(queue, request, now)
             /\ last' = QueueCall("save_approval_request", id, request.status, None, FALSE)
    /\ UNCHANGED <<now, cache>>
    /\ HandlersIdle

ApiUpdateApprovalStatus(id, status, slack_ts) ==
    /\ queue' = UpdateApprovalStatus(queue, id, status, slack_ts, now)
    /\ last' = QueueCall("update_approval_status", id, status, slack_ts, FALSE)
    /\ UNCHANGED <<now, cache>>
    /\ HandlersIdle

ApiUpdateApprovalEmail(id) ==
    /\ queue' = UpdateApprovalEmail(queue, id, OtherDraft.subject, OtherDraft.body, now)
    /\ last' = QueueCall("update_approval_email", id, "", None, FALSE)
    /\ UNCHANGED <<now, cache>>
    /\ HandlersIdle

QueueNext ==
    \/ \E id \in StoreIds : ApiSaveApprovalRequest(id)
    \/ \E id \in StoreIds, status \in Statuses, slack_ts \in StoreTokens :
            ApiUpdateApprovalStatus(id, status, slack_ts)
    \/ \E id \in StoreIds : ApiUpdateApprovalEmail(id)
    \/ Tick

QueueSpec == Init /\ [][QueueNext]_vars

(***************************************************************************)
(* One worker thread: requests one at a time, the inputs of each noted     *)
(***************************************************************************)
SerialProc == "h1"

SerialSignalStart ==
    /\ Accept(SerialProc)
    /\ \E shape \in PayloadShapes, domain \in SignalDomains :
        /\ SignalRequest(SerialProc, shape, domain)
        /\ last' = [op |-> "reporadar_webhook", seq |-> 1 - last.seq, shape |-> shape]
    /\ UNCHANGED <<now, cache, queue, posted, crmLog, nextId>>

SerialInteractionStart ==
    /\ Accept(SerialProc)
    /\ \E timestamp \in TimestampHeaders, skew \in Skews, signature \in SignatureHeaders :
        /\ InteractionRequest(SerialProc, timestamp, skew, signature)
        /\ last' = [op |-> "slack_interactions", seq |-> 1 - last.seq,
                    timestamp |-> timestamp, skew |-> skew, signature |-> signature]
    /\ UNCHANGED <<now, cache, queue, posted, crmLog, nextId>>

SerialNext ==
    \/ SerialSignalStart
    \/ SignalSteps(SerialProc)
    \/ SerialInteractionStart
    \/ InteractionSteps(SerialProc)
    \/ Tick

SerialSpec == Init /\ [][SerialNext]_vars

(***************************************************************************)
(* Properties                                                              *)
(***************************************************************************)
SignalOf(p) == loc[p].kind = "signal"
ApproveOf(p) == loc[p].kind = "interaction" /\ loc[p].action = "approve_lead"
SkipOf(p) == loc[p].kind = "interaction" /\ loc[p].action = "skip_lead"
CrmCalls == {"create_contact", "add_to_sequence"}

\* C1: of two approve handlers that run at the same time for one request id,
\* both having read the record as pending, at most one makes the CRM
\* create_contact call.
C1_ConcurrentApproveCreatesOnce ==
    \A p, q \in Procs :
        ( /\ p # q
          /\ ApproveOf(p) /\ ApproveOf(q)
          /\ pc[p] # "idle" /\ pc[q] # "idle"
          /\ loc[p].rid = loc[q].rid
          /\ loc[p].snap_status = "pending" /\ loc[q].snap_status = "pending" )
        => ~("create_contact" \in calls[p] /\ "create_contact" \in calls[q])

\* C2: an approve handler that has read its record as already approved,
\* skipped or rejected makes no create_contact and no enroll call.
C2_RepeatApproveMakesNoCrmCall ==
    \A p \in Procs :
        (ApproveOf(p) /\ loc[p].snap_status \in Terminal) => calls[p] \cap CrmCalls = {}

\* C3: the status write of a skip handler leaves the status of a record that
\* is approved, skipped or rejected as it is.
C3_SkipKeepsTerminalStatus ==
    [][\A p \in Procs :
        ( /\ pc[p] = "skip_update" /\ pc'[p] # "skip_update"
          /\ loc[p].rid \in DOMAIN queue
          /\ queue[loc[p].rid].status \in Terminal )
        => queue'[loc[p].rid].status = queue[loc[p].rid].status]_vars

\* C4: no step of any handler changes the status of a record that is
\* approved, skipped or rejected.
C4_TerminalStatusIsFinal ==
    [][\A id \in DOMAIN queue :
        queue[id].status \in Terminal
        => (id \in DOMAIN queue' /\ queue'[id].status = queue[id].status)]_vars

\* C5: a webhook whose contact search returned no contact has answered
\* skipped / no_contacts_found, has inserted no approval request, and has
\* called neither the draft generator nor Slack.
C5_NoContactsSkips ==
    \A p \in Procs :
        (SignalOf(p) /\ loc[p].searched /\ loc[p].contacts = <<>>)
        => /\ pc[p] = "idle"
           /\ resp[p] = Resp(200, "skipped", "no_contacts_found")
           /\ loc[p].rid = 0
           /\ calls[p] \subseteq {"directory"}

C5_Witness ==
    \E p \in Procs :
        /\ SignalOf(p) /\ loc[p].searched /\ loc[p].contacts = <<>>
        /\ resp[p] = Resp(200, "skipped", "no_contacts_found")
        /\ "directory" \in calls[p]

\* C6: a webhook whose first contact has no email (None or empty) has answered
\* skipped / no_email, has inserted no approval request, and has called
\* neither the draft generator nor Slack.
C6_NoEmailSkips ==
    \A p \in Procs :
        ( /\ SignalOf(p) /\ loc[p].searched /\ loc[p].contacts # <<>>
          /\ ~Truthy(Head(loc[p].contacts).email) )
        => /\ pc[p] = "idle"
           /\ resp[p] = Resp(200, "skipped", "no_email")
           /\ loc[p].rid = 0
           /\ calls[p] \cap {"draft", "publish"} = {}

C6_Witness ==
    \E p \in Procs :
        /\ SignalOf(p) /\ loc[p].searched
        /\ loc[p].contacts = <<ContactNoneEmail, ContactEmail>>
        /\ resp[p] = Resp(200, "skipped", "no_email")

\* C7: a row enters the approval queue with status pending and no correlation
\* token, and any row that has a correlation token is one whose card Slack
\* has posted (post_approval_card has returned its ts).
C7_TokenOnlyAfterPublish ==
    /\ [](\A id \in DOMAIN queue : queue[id].slack_message_ts # None => id \in posted)
    /\ [][\A id \in (DOMAIN queue') \ (DOMAIN queue) :
            queue'[id].status = "pending" /\ queue'[id].slack_message_ts = None]_vars

C7_Witness ==
    \E p \in Procs :
        /\ pc[p] = "record_token"
        /\ loc[p].rid \in posted
        /\ queue[loc[p].rid].status = "pending"
        /\ queue[loc[p].rid].slack_message_ts = None

\* C8: update_approval_status called with slack_ts None or "" on a row whose
\* slack_message_ts is set changes the row's status and updated_at only, and
\* no other row.
C8_UpdateStatusKeepsToken ==
    [][( /\ last'.seq # last.seq
         /\ last'.op = "update_approval_status"
         /\ ~Truthy(last'.slack_ts)
         /\ last'.id \in DOMAIN queue
         /\ Truthy(queue[last'.id].slack_message_ts) )
       => /\ DOMAIN queue' = DOMAIN queue
          /\ queue'[last'.id].slack_message_ts = queue[last'.id].slack_message_ts
          /\ queue'[last'.id].status = last'.status
          /\ queue'[last'.id].updated_at = Isoformat(now)
          /\ \A f \in (DOMAIN queue[last'.id]) \ {"status", "updated_at"} :
                queue'[last'.id][f] = queue[last'.id][f]
          /\ \A id \in (DOMAIN queue) \ {last'.id} : queue'[id] = queue[id]]_vars

C8_Witness ==
    /\ last.op = "update_approval_status"
    /\ last.slack_ts = ""
    /\ last.status = "approved"
    /\ last.id \in DOMAIN queue
    /\ queue[last.id].status = "approved"
    /\ queue[last.id].slack_message_ts = SlackTs

\* C9: get_cached_contacts(D) called next after cache_contacts(D, C) with C
\* not empty, no more than the expiry window later, returns C, same order.
C9_CacheRoundTrip ==
    [][( /\ last.op = "cache_contacts"
         /\ last.contacts # <<>>
         /\ last'.seq # last.seq
         /\ last'.op = "get_cached_contacts"
         /\ last'.domain = last.domain
         /\ now - last.at <= CACHE_EXPIRY_DAYS )
       => (last'.found /\ last'.contacts = last.contacts)]_vars

C9_Witness ==
    /\ last.op = "get_cached_contacts"
    /\ last.found
    /\ last.contacts = <<ContactNoneEmail, ContactEmail>>
    /\ last.domain \in DOMAIN cache
    /\ now - FromIsoformat(cache[last.domain].fetched_at) = CACHE_EXPIRY_DAYS

\* C10: get_cached_contacts of a domain that has a row: when now - fetched_at
\* exceeds the expiry window it reports absence and the row is gone after the
\* call; otherwise it returns the row's contacts and leaves the table as it was.
C10_ExpiredRowPurged ==
    [][( /\ last'.seq # last.seq
         /\ last'.op = "get_cached_contacts"
         /\ last'.domain \in DOMAIN cache )
       => IF now - FromIsoformat(cache[last'.domain].fetched_at) > CACHE_EXPIRY_DAYS
          THEN /\ ~last'.found
               /\ last'.domain \notin DOMAIN cache'
               /\ \A d \in (DOMAIN cache) \ {last'.domain} :
                    d \in DOMAIN cache' /\ cache'[d] = cache[d]
          ELSE /\ last'.found
               /\ last'.contacts = JsonLoads(cache[last'.domain].contacts_json)
               /\ cache' = cache]_vars

C10_Witness ==
    /\ last.op = "get_cached_contacts"
    /\ last.had_row
    /\ ~last.found
    /\ last.domain \notin DOMAIN cache
    /\ DOMAIN cache # {}

\* C11: an interaction whose timestamp header is a number more than 300
\* seconds away from the current time is answered 401 and nothing is
\* dispatched, even when its signature is the correct HMAC; one whose
\* timestamp is within 300 seconds and whose signature is correct is
\* authenticated and goes on to the lookup of its request.
C11_StaleTimestampRejected ==
    [][( /\ last'.seq # last.seq
         /\ last'.op = "slack_interactions"
         /\ last'.timestamp = "number" )
       => /\ (last'.skew > SLACK_MAX_SKEW)
                => /\ resp'[SerialProc] = Resp(401, "error", "Invalid signature")
                   /\ pc'[SerialProc] = "idle"
                   /\ loc'[SerialProc].action = ""
          /\ (last'.skew <= SLACK_MAX_SKEW /\ last'.signature = "correct")
                => /\ loc'[SerialProc].action \in ActionIds
                   /\ resp'[SerialProc].code # 401]_vars

C11_Witness ==
    /\ last.op = "slack_interactions"
    /\ last.timestamp = "number"
    /\ last.skew = SLACK_MAX_SKEW + 1
    /\ last.signature = "correct"
    /\ resp[SerialProc] = Resp(401, "error", "Invalid signature")
    /\ queue # <<>>

\* C12: an interaction that fails authentication (timestamp header missing
\* or not a number, timestamp more than 300 seconds off, signature missing or
\* wrong) is answered 401 with nothing dispatched: the approval queue, the
\* CRM and the Slack channel are as before and no external call is made.
C12_AuthFailureIs401 ==
    [][( /\ last'.seq # last.seq
         /\ last'.op = "slack_interactions"
         /\ ( \/ last'.timestamp # "number"
              \/ last'.skew > SLACK_MAX_SKEW
              \/ last'.signature # "correct" ) )
       => /\ resp'[SerialProc].code = 401
          /\ pc'[SerialProc] = "idle"
          /\ loc'[SerialProc].action = ""
          /\ queue' = queue /\ crmLog' = crmLog /\ posted' = posted
          /\ calls'[SerialProc] = {}]_vars

\* C13: when create_contact has returned a contact id for a pending record
\* and add_to_sequence then fails, the approve handler has marked the record
\* approved by the time it answers.
C13_EnrollFailureStillApproves ==
    [][\A p \in Procs :
        ( /\ pc[p] = "add_to_sequence" /\ pc'[p] = "idle"
          /\ loc[p].new_contact_id
          /\ "add_to_sequence" \in calls'[p]
          /\ queue[loc[p].rid].status = "pending" )
        => queue'[loc[p].rid].status = "approved"]_vars

\* C14: an authenticated interaction whose request id has no row in the
\* approval queue is answered 404 whatever its action, makes no external
\* call, and the step that handles it leaves the queue, the CRM and the
\* Slack channel as they were.
C14_UnknownRequestIs404 ==
    /\ [](\A p \in Procs :
            ( /\ loc[p].kind = "interaction" /\ loc[p].action \in ActionIds
              /\ loc[p].rid \notin DOMAIN queue )
            => /\ pc[p] = "idle"
               /\ resp[p] = Resp(404, "error", "Request not found")
               /\ calls[p] = {})
    /\ [][\A p \in Procs :
            ( /\ ncalls' # ncalls
              /\ loc'[p].kind = "interaction" /\ loc'[p].action \in ActionIds
              /\ loc'[p].rid \notin DOMAIN queue )
            => queue' = queue /\ crmLog' = crmLog /\ posted' = posted]_vars

C14_Witness ==
    \E p \in Procs :
        /\ loc[p].kind = "interaction" /\ loc[p].action = "approve_lead"
        /\ loc[p].rid \notin DOMAIN queue
        /\ resp[p] = Resp(404, "error", "Request not found")
        /\ queue # <<>>

\* C15: an authenticated edit or regenerate interaction on a request that
\* exists is answered 501 (not implemented), one with an unrecognised action
\* is answered 400; in both cases the handler makes no external call and the
\* step that handles it leaves every row of the approval queue (status,
\* subject, body, slack_message_ts), the CRM and the Slack channel as they were.
C15_EditRegenerateChangeNothing ==
    /\ [](\A p \in Procs :
            ( /\ loc[p].kind = "interaction" /\ loc[p].action \in ActionIds
              /\ loc[p].rid \in DOMAIN queue )
            => /\ loc[p].action = "edit_lead"
                    => /\ pc[p] = "idle" /\ calls[p] = {}
                       /\ resp[p] = Resp(501, "edit_not_implemented", "")
               /\ loc[p].action = "regenerate_lead"
                    => /\ pc[p] = "idle" /\ calls[p] = {}
                       /\ resp[p] = Resp(501, "regenerate_not_implemented", "")
               /\ loc[p].action \notin {"approve_lead", "skip_lead", "edit_lead", "regenerate_lead"}
                    => /\ pc[p] = "idle" /\ calls[p] = {}
                       /\ resp[p] = Resp(400, "error", "Unknown action"))
    /\ [][\A p \in Procs :
            ( /\ ncalls' # ncalls
              /\ loc'[p].kind = "interaction"
              /\ loc'[p].action \in ActionIds \ {"approve_lead", "skip_lead"}
              /\ loc'[p].rid \in DOMAIN queue )
            => queue' = queue /\ crmLog' = crmLog /\ posted' = posted]_vars

C15_Witness ==
    \E p, q \in Procs :
        /\ loc[p].kind = "interaction" /\ loc[p].action = "edit_lead"
        /\ loc[p].rid \in DOMAIN queue
        /\ queue[loc[p].rid].slack_message_ts = SlackTs
        /\ resp[p] = Resp(501, "edit_not_implemented", "")
        /\ loc[q].kind = "interaction" /\ loc[q].action = "other"
        /\ loc[q].rid \in DOMAIN queue
        /\ resp[q] = Resp(400, "error", "Unknown action")

\* C16: a webhook whose payload has an unknown signal_type, or lacks one of
\* company, domain, signal_type, signal_summary, or has one of them empty, is
\* answered 400 in its first step: no search result, no external call, and
\* the cache, the approval queue, the id counter, the CRM and the Slack
\* channel are as they were.
C16_InvalidSignalRejected ==
    [][( /\ last'.seq # last.seq
         /\ last'.op = "reporadar_webhook"
         /\ last'.shape \in {"unknown_signal_type", "missing_field", "empty_field"} )
       => /\ resp'[SerialProc] = Resp(400, "error", "Invalid payload")
          /\ pc'[SerialProc] = "idle"
          /\ ~loc'[SerialProc].searched /\ loc'[SerialProc].rid = 0
          /\ calls'[SerialProc] = {}
          /\ cache' = cache /\ queue' = queue /\ nextId' = nextId
          /\ crmLog' = crmLog /\ posted' = posted]_vars

C16_Witness ==
    /\ last.op = "reporadar_webhook"
    /\ last.shape = "empty_field"
    /\ resp[SerialProc] = Resp(400, "error", "Invalid payload")
    /\ calls[SerialProc] = {}
    /\ cache # <<>>

\* C17: when post_approval_card fails, the webhook answers with an error
\* (500) and the row it has just inserted is still in the approval queue with
\* status pending and no slack_message_ts, and get_pending_requests lists it.
C17_PublishFailureLeavesOrphan ==
    [][\A p \in Procs :
        (pc[p] = "publish" /\ pc'[p] = "idle")
        => /\ resp'[p] = Resp(500, "error", "Internal server error")
           /\ loc[p].rid \notin posted'
           /\ loc[p].rid \in DOMAIN queue'
           /\ queue'[loc[p].rid].status = "pending"
           /\ queue'[loc[p].rid].slack_message_ts = None
           /\ loc[p].rid \in GetPendingRequests(queue')]_vars

C17_Witness ==
    \E p \in Procs :
        /\ SignalOf(p) /\ pc[p] = "idle"
        /\ "publish" \in calls[p]
        /\ resp[p] = Resp(500, "error", "Internal server error")
        /\ loc[p].rid \in GetPendingRequests(queue)
        /\ queue[loc[p].rid].slack_message_ts = None
        /\ loc[p].rid \notin posted

\* C18: when the Apollo people search or the draft generation fails, the
\* webhook answers with an error (500, or 400 for a ValueError); it has
\* inserted no approval request and posted no card.
C18_UpstreamFailureAborts ==
    [][\A p \in Procs :
        ( \/ (pc[p] = "directory" /\ pc'[p] = "idle" /\ ~loc'[p].searched)
          \/ (pc[p] = "draft" /\ pc'[p] = "idle") )
        => /\ resp'[p].body = "error" /\ resp'[p].code \in {400, 500}
           /\ loc'[p].rid = 0
           /\ queue' = queue /\ nextId' = nextId /\ posted' = posted
           /\ "publish" \notin calls'[p]]_vars

C18_Witness ==
    \E p, q \in Procs :
        /\ SignalOf(p) /\ pc[p] = "idle" /\ loc[p].searched
        /\ "draft" \in calls[p]
        /\ resp[p] = Resp(500, "error", "Internal server error")
        /\ loc[p].rid = 0
        /\ SignalOf(q) /\ pc[q] = "idle" /\ ~loc[q].searched
        /\ "directory" \in calls[q]
        /\ resp[q].body = "error"
        /\ queue = <<>>

\* C19: save_approval_request called with an id that already has a row raises
\* (sqlite3.IntegrityError on the primary key) and leaves the approval queue,
\* the existing row with its status and slack_message_ts included, as it was.
C19_DuplicateIdRaises ==
    [][( /\ last'.seq # last.seq
         /\ last'.op = "save_approval_request"
         /\ last'.id \in DOMAIN queue )
       => (last'.raised /\ queue' = queue)]_vars

C19_Witness ==
    /\ last.op = "save_approval_request"
    /\ last.raised
    /\ last.id \in DOMAIN queue
    /\ queue[last.id].status = "approved"
    /\ queue[last.id].slack_message_ts = SlackTs

\* C20: update_approval_status called with an id that has no row raises and
\* leaves the approval queue as it was.
C20_UpdateUnknownIdRaises ==
    [][( /\ last'.seq # last.seq
         /\ last'.op = "update_approval_status"
         /\ last'.id \notin DOMAIN queue )
       => (last'.raised /\ queue' = queue)]_vars

\* C21: in every state, a row of the approval queue whose status is approved,
\* skipped or rejected has its slack_message_ts set.
C21_NonPendingHasToken ==
    \A id \in DOMAIN queue :
        queue[id].status # "pending" => Truthy(queue[id].slack_message_ts)

\* C22: an approve handler is at, or has made, the add_to_sequence call only
\* when its create_contact call has returned with a contact id; a handler
\* whose create_contact answer carried no contact id makes no add_to_sequence
\* call; no record has more enrollments than contacts created.
C22_EnrollOnlyAfterContactId ==
    /\ \A p \in Procs :
        ApproveOf(p)
        => /\ (pc[p] = "add_to_sequence" \/ "add_to_sequence" \in calls[p])
                => ("create_contact" \in calls[p] /\ loc[p].new_contact_id)
           /\ ~loc[p].new_contact_id => "add_to_sequence" \notin calls[p]
    /\ \A id \in DOMAIN crmLog : crmLog[id].enrolled <= crmLog[id].created

C22_Witness ==
    \E p \in Procs :
        /\ ApproveOf(p) /\ pc[p] = "idle"
        /\ "create_contact" \in calls[p]
        /\ ~loc[p].new_contact_id
        /\ "add_to_sequence" \notin calls[p]
        /\ resp[p] = Resp(200, "approved", "")

\* C23: when an approve or skip handler has written its status and the card
\* update that follows fails, the row has the new status and the handler
\* answers 200 approved / 200 skipped.
C23_CardUpdateFailureIsSuccess ==
    [][\A p \in Procs :
        ( /\ pc[p] \in {"approve_update", "skip_update"} /\ pc'[p] = "idle"
          /\ "update_card_failed" \in calls'[p] )
        => LET status == IF pc[p] = "approve_update" THEN "approved" ELSE "skipped" IN
           /\ queue'[loc[p].rid].status = status
           /\ resp'[p] = Resp(200, status, "")]_vars

C23_Witness ==
    \E p \in Procs :
        /\ SkipOf(p) /\ pc[p] = "idle"
        /\ "update_card_failed" \in calls[p]
        /\ queue[loc[p].rid].status = "skipped"
        /\ resp[p] = Resp(200, "skipped", "")

\* C24: after cache_contacts(domain, contacts) the table company_cache has
\* the row of that domain, holding the given contacts and a fetched_at equal
\* to the time of the call, whether or not the domain had a row before; the
\* rows of all other domains are as they were. (domain is the primary key of
\* the table: it has one row per domain at most.)
C24_StoreContactsUpserts ==
    [][( /\ last'.seq # last.seq
         /\ last'.op = "cache_contacts" )
       => /\ DOMAIN cache' = (DOMAIN cache) \cup {last'.domain}
          /\ JsonLoads(cache'[last'.domain].contacts_json) = last'.contacts
          /\ FromIsoformat(cache'[last'.domain].fetched_at) = now
          /\ \A d \in (DOMAIN cache) \ {last'.domain} : cache'[d] = cache[d]]_vars

C24_Witness ==
    /\ last.op = "cache_contacts"
    /\ last.had_row
    /\ last.at = now /\ now > 0
    /\ last.contacts = <<ContactEmail, ContactNoneEmail>>
    /\ FromIsoformat(cache[last.domain].fetched_at) = now
    /\ \E d \in DOMAIN cache : d # last.domain /\ FromIsoformat(cache[d].fetched_at) < now

\* C25: a webhook that missed the cache and got an empty answer from the
\* Apollo search leaves the cache as it was, with no row for the domain; the
\* webhook that follows it for the domain goes to the Apollo search again.
C25_EmptyResultNotCached ==
    /\ []( ( /\ SignalOf(SerialProc) /\ loc[SerialProc].searched
             /\ loc[SerialProc].contacts = <<>> )
           => loc[SerialProc].domain \notin DOMAIN cache )
    /\ [][( /\ pc[SerialProc] = "directory" /\ pc'[SerialProc] = "idle"
            /\ loc'[SerialProc].searched /\ loc'[SerialProc].contacts = <<>> )
          => cache' = cache]_vars
    /\ [][( /\ last'.seq # last.seq
            /\ last'.op = "reporadar_webhook" /\ last'.shape = "valid"
            /\ SignalOf(SerialProc)
            /\ resp[SerialProc] = Resp(200, "skipped", "no_contacts_found") )
          => pc'[SerialProc] = "directory"]_vars

C25_Witness ==
    /\ SignalOf(SerialProc) /\ pc[SerialProc] = "idle"
    /\ loc[SerialProc].searched /\ loc[SerialProc].contacts = <<>>
    /\ "directory" \in calls[SerialProc]
    /\ loc[SerialProc].domain \notin DOMAIN cache
    /\ last.op = "reporadar_webhook" /\ last.shape = "valid"
    /\ ncalls >= 2 /\ now > 0

\* C26: a webhook that finds a row of its domain that is not expired and
\* holds a non-empty contact list takes that list as its search result
\* without calling the Apollo search and leaves the cache (contacts and
\* fetched_at of the row) as it was; no later step of the webhook calls the
\* search or writes the cache; the approval request it saves is for the
\* first contact of the list.
C26_CacheHitSkipsDirectory ==
    /\ [][( /\ last'.seq # last.seq
            /\ last'.op = "reporadar_webhook" /\ last'.shape = "valid"
            /\ loc'[SerialProc].domain \in DOMAIN cache
            /\ ~(now - FromIsoformat(cache[loc'[SerialProc].domain].fetched_at)
                    > CACHE_EXPIRY_DAYS)
            /\ JsonLoads(cache[loc'[SerialProc].domain].contacts_json) # <<>> )
          => /\ loc'[SerialProc].searched
             /\ loc'[SerialProc].contacts
                    = JsonLoads(cache[loc'[SerialProc].domain].contacts_json)
             /\ pc'[SerialProc] \in {"draft", "idle"}
             /\ "directory" \notin calls'[SerialProc]
             /\ cache' = cache]_vars
    /\ [][pc[SerialProc] \in {"draft", "save", "publish", "record_token"}
          => /\ "directory" \in calls'[SerialProc] <=> "directory" \in calls[SerialProc]
             /\ cache' = cache]_vars
    /\ []( (SignalOf(SerialProc) /\ loc[SerialProc].rid \in DOMAIN queue)
           => /\ queue[loc[SerialProc].rid].contact_id = Head(loc[SerialProc].contacts).id
              /\ queue[loc[SerialProc].rid].contact_email
                    = Head(loc[SerialProc].contacts).email )

C26_Witness ==
    /\ SignalOf(SerialProc) /\ loc[SerialProc].searched
    /\ "directory" \notin calls[SerialProc]
    /\ loc[SerialProc].rid \in DOMAIN queue
    /\ queue[loc[SerialProc].rid].contact_id = "c1"
    /\ loc[SerialProc].domain \in DOMAIN cache
    /\ now - FromIsoformat(cache[loc[SerialProc].domain].fetched_at) = CACHE_EXPIRY_DAYS

\* C27: no step of a webhook or an interaction removes a row of the approval
\* queue: every id stays, with the row's domain, contact and created_at, and
\* a step adds one id at most; two webhooks that have each saved an approval
\* request have saved them under different ids.
C27_RequestsNeverRemoved ==
    /\ [][/\ DOMAIN queue \subseteq DOMAIN queue'
          /\ Cardinality(DOMAIN queue') <= Cardinality(DOMAIN queue) + 1
          /\ \A id \in DOMAIN queue :
                /\ queue'[id].domain = queue[id].domain
                /\ queue'[id].contact_id = queue[id].contact_id
                /\ queue'[id].created_at = queue[id].created_at]_vars
    /\ [](\A p, q \in Procs :
            (p # q /\ SignalOf(p) /\ SignalOf(q) /\ loc[p].rid # 0 /\ loc[q].rid # 0)
            => loc[p].rid # loc[q].rid)

C27_Witness ==
    /\ Cardinality(DOMAIN queue) = 2
    /\ \E id \in DOMAIN queue : queue[id].status = "skipped"
    /\ \E p, q \in Procs : p # q /\ SignalOf(p) /\ SignalOf(q)
                            /\ loc[p].rid # 0 /\ loc[q].rid # 0

\* C28: the webhook's update_approval_status(id, "pending", slack_ts) after
\* the card is posted records the slack_message_ts and leaves the status of
\* the row as it finds it: a row that an interaction has made approved or
\* skipped in between is not made pending again.
C28_TokenWriteKeepsStatus ==
    [][\A p \in Procs :
        ( /\ pc[p] = "record_token" /\ pc'[p] # "record_token"
          /\ loc[p].rid \in DOMAIN queue )
        => /\ queue'[loc[p].rid].slack_message_ts = loc[p].slack_ts
           /\ queue'[loc[p].rid].status = queue[loc[p].rid].status]_vars

\* C29: the DELETE of a lookup that has read an expired row does not remove
\* a row of the domain that cache_contacts has written since and that is not
\* expired.
C29_PurgeKeepsFreshRow ==
    [][\A p \in Procs :
        ( /\ pc[p] = "cache_purge" /\ pc'[p] # "cache_purge"
          /\ loc[p].domain \in DOMAIN cache
          /\ ~CacheExpired(cache[loc[p].domain], now) )
        => /\ loc[p].domain \in DOMAIN cache'
           /\ cache'[loc[p].domain] = cache[loc[p].domain]]_vars

\* C30: in every state, a row whose status is skipped is one for which no
\* create_contact and no add_to_sequence call has been made.
C30_SkippedHasNoCrmCall ==
    \A id \in DOMAIN queue :
        queue[id].status = "skipped"
        => (crmLog[id].created = 0 /\ crmLog[id].enrolled = 0)

====
